---- MODULE Spec2Model ----
(***************************************************************************)
(* Wavefront schema fitting of nvtabular.graph.graph.Graph.                *)
(*                                                                         *)
(* A Graph borrows a DAG of Nodes ending at output_node.  fit_schema       *)
(* computes every pending node's input/output schema phase by phase, then  *)
(* derives the graph-level input and output schema.  _zero_output_schemas  *)
(* resets the node-level schemas so that a later fit recomputes them.      *)
(*                                                                         *)
(* Node, iter_nodes and Schema live in nvtabular/graph/node.py and         *)
(* nvtabular/graph/schema.py; their behaviour is taken from the written    *)
(* specification (sections 3, 4.2 and 4.3).                                *)
(*                                                                         *)
(* WorkflowOp (nvtabular.inference.graph.ops.workflow) reads a fitted      *)
(* Graph: compute_output_schema checks an offered schema against the       *)
(* graph's input schema, export reconciles the workflow's output dtypes    *)
(* with the dtypes a consumer declares (section 6).                        *)
(***************************************************************************)
EXTENDS Integers, Sequences, FiniteSets, TLC

(* ------------------------------ bounds -------------------------------- *)

\* Number of nodes handed to the Graph; node NumNodes is the sink.
NumNodes == 3

Nodes == 1..NumNodes

(* ------------------------------ schemas ------------------------------- *)

Columns == {"a", "b", "c", "x", "t"}

\* Marks a column name that a Schema does not hold.
Absent == "absent"

\* A Schema maps column names to descriptors; a name it does not hold maps
\* to Absent.  Names are unique within a Schema by construction.
Names(s) == {c \in Columns : s[c] # Absent}

\* Python's None for an unset schema field: distinct from every Schema.
None == [c \in Columns |-> "None"]

\* Schema()
EmptySchema == [c \in Columns |-> Absent]

\* Schema truthiness (`if parent.output_schema`): None and the empty
\* Schema are falsy.
Truthy(s) == s # None /\ Names(s) # {}

\* a + b on Schemas: union of the columns, b's descriptor on a collision.
Merge(a, b) == [c \in Columns |-> IF b[c] # Absent THEN b[c] ELSE a[c]]

\* project(schema, names): the requested names that exist.
Project(s, names) == [c \in Columns |-> IF c \in names THEN s[c] ELSE Absent]

\* Root schemas a caller may pass to fit_schema.
RootSchemas ==
    { [c \in Columns |-> CASE c = "a" -> "int"
                           [] c = "b" -> "int"
                           [] c = "c" -> "str"
                           [] OTHER   -> Absent],
      [c \in Columns |-> CASE c = "a" -> "float"
                           [] c = "b" -> "int"
                           [] c = "x" -> "str"
                           [] OTHER   -> Absent] }

(* ----------------------------- operators ------------------------------ *)

\* Each node wraps an operator with declared input columns, declared output
\* columns and the dtype it gives the columns it creates.  Three operator
\* kinds are assigned to the nodes round-robin.
OpKind(n) == ((n - 1) % 3) + 1

OpInputs(n) ==
    CASE OpKind(n) = 1 -> {"a"}
      [] OpKind(n) = 2 -> {"b", "x"}
      [] OTHER         -> {"x", "b"}

OpOutputs(n) ==
    CASE OpKind(n) = 1 -> {"a", "x"}
      [] OpKind(n) = 2 -> {"x"}
      [] OTHER         -> {"x", "b", "t"}

OpDtype(n) == IF OpKind(n) = 2 THEN "float" ELSE "int"

\* The operator's schema rule: the input schema is the combined schema
\* restricted to the declared inputs; the output schema holds the declared
\* outputs, passing an input column's descriptor through.
NodeInputSchema(n, combined) == Project(combined, OpInputs(n))

NodeOutputSchema(n, in) ==
    [c \in Columns |-> IF c \in OpOutputs(n)
                       THEN IF in[c] # Absent THEN in[c] ELSE OpDtype(n)
                       ELSE Absent]

(* ------------------------------- state -------------------------------- *)

VARIABLES
    parents,              \* Node.parents: ordered data-parents
    dependencies,         \* Node.dependencies: ordering-only parents
    input_schema,         \* Node.input_schema, None when unset
    output_schema,        \* Node.output_schema, None when unset
    graph_input_schema,   \* Graph.input_schema
    graph_output_schema,  \* Graph.output_schema
    pc,                   \* position inside Graph's methods
    root_schema,          \* fit_schema's argument
    schemaless_nodes,     \* fit_schema's dict: pending node -> blocking set
    current_phase,        \* fit_schema's list of the phase's nodes
    processed_nodes,      \* fit_schema's list of nodes done in the phase
    last_call,            \* how the last Graph call ended
    calls,                \* compute_schemas invocations per node, this pass
    fit_phase,            \* phase in which compute_schemas ran, this pass
    phase_no,             \* phases selected so far, this pass
    handed,               \* schema handed to compute_schemas, this pass
    pending0,             \* nodes pending when this pass started
    stage,                \* progress through fit; zero-out; fit
    snap,                 \* schemas left by the last successful fit
    first,                \* schemas left by the fit before the zero-out
    wf                    \* the WorkflowOp call made since the last Graph call

vars == <<parents, dependencies, input_schema, output_schema,
          graph_input_schema, graph_output_schema, pc, root_schema,
          schemaless_nodes, current_phase, processed_nodes, last_call,
          calls, fit_phase, phase_no, handed, pending0, stage, snap, first,
          wf>>

graphVars == <<parents, dependencies>>

(* ------------------------------ helpers ------------------------------- *)

Range(s) == {s[i] : i \in DOMAIN s}

RECURSIVE SetToSeq(_)
\* The elements of a finite set in some fixed order.
SetToSeq(S) ==
    IF S = {} THEN <<>>
    ELSE LET x == CHOOSE y \in S : TRUE IN <<x>> \o SetToSeq(S \ {x})

\* The sequences that list every element of S exactly once.
Perms(S) ==
    {s \in [1..Cardinality(S) -> S] : \A i, j \in DOMAIN s : s[i] = s[j] => i = j}

\* The ordered lists without repetition over subsets of S.
OrderedSubsets(S) == UNION {Perms(T) : T \in SUBSET S}

RECURSIVE GetUnique(_)
\* _get_unique: drop repeats, keep the order of first occurrence.
GetUnique(cols) ==
    IF cols = <<>> THEN <<>>
    ELSE LET init == GetUnique(SubSeq(cols, 1, Len(cols) - 1))
             last == cols[Len(cols)]
         IN  IF last \in Range(init) THEN init ELSE Append(init, last)

(* ------------------------------- nodes -------------------------------- *)

output_node == NumNodes

\* Node.parents_with_dependencies: data-parents, then dependency-parents.
ParentsWithDependencies(n) == parents[n] \o SetToSeq(dependencies[n])

RECURSIVE Grow(_)
Grow(T) ==
    LET T2 == T \cup UNION {Range(ParentsWithDependencies(n)) : n \in T}
    IN  IF T2 = T THEN T ELSE Grow(T2)

\* iter_nodes: every node reachable from `nodes` through data-parents or
\* dependency-parents, each visited once.
IterNodes(nodes) == Grow(nodes)

\* Mutation of GetSchemalessNodes: fitted nodes are returned as well.
GetSchemalessNodes_All(nodes) == IterNodes(nodes)

\* _get_schemaless_nodes
GetSchemalessNodes(nodes) == {n \in IterNodes(nodes) : input_schema[n] = None}

\* Node.compute_schemas: sets the node's two schema fields together.
ComputeSchemas(n, combined) ==
    /\ input_schema' = [input_schema EXCEPT ![n] = NodeInputSchema(n, combined)]
    /\ output_schema' =
         [output_schema EXCEPT
            ![n] = NodeOutputSchema(n, NodeInputSchema(n, combined))]
    /\ calls' = [calls EXCEPT ![n] = @ + 1]
    /\ fit_phase' = [fit_phase EXCEPT ![n] = phase_no]
    /\ handed' = [handed EXCEPT ![n] = combined]

(* ------------------------- fit_schema pieces -------------------------- *)

\* Mutation of BuildSchemalessNodes: the blocking sets are left empty.
BuildSchemalessNodes_NoBlocking ==
    [n \in GetSchemalessNodes({output_node}) |-> {}]

\* Mutation of BuildSchemalessNodes: a pending node is blocked by its
\* pending direct parents only, not by pending nodes further upstream.
BuildSchemalessNodes_DirectOnly ==
    [n \in GetSchemalessNodes({output_node}) |->
        {p \in Range(ParentsWithDependencies(n)) : input_schema[p] = None}]

\* lines 35-38: pending node -> schemaless nodes among its ancestors
BuildSchemalessNodes ==
    [n \in GetSchemalessNodes({output_node}) |->
        GetSchemalessNodes(Range(ParentsWithDependencies(n)))]

\* Mutation of ReadyNodes: every pending node is taken, blocked or not.
ReadyNodes_All == DOMAIN schemaless_nodes

\* lines 42-44: the pending nodes with no outstanding dependencies
ReadyNodes == {n \in DOMAIN schemaless_nodes : schemaless_nodes[n] = {}}

RECURSIVE SumSchemas(_)
\* sum([...], Schema()): left fold of + over the listed schemas
SumSchemas(schemas) ==
    IF schemas = <<>> THEN EmptySchema
    ELSE Merge(SumSchemas(SubSeq(schemas, 1, Len(schemas) - 1)),
               schemas[Len(schemas)])

\* [parent.output_schema for parent in node.parents if parent.output_schema]
ParentOutputSchemas(n) ==
    LET outs == [i \in DOMAIN parents[n] |-> output_schema[parents[n][i]]]
    IN  SelectSeq(outs, Truthy)

\* Mutation of CombinedSchema: the node also reads the output schemas of
\* the nodes already processed in its own phase.
CombinedSchema_ReadsPhase(n) ==
    LET srcs == parents[n] \o processed_nodes
        outs == [i \in DOMAIN srcs |-> output_schema[srcs[i]]]
    IN  IF srcs = <<>> THEN root_schema
        ELSE Merge(root_schema, SumSchemas(SelectSeq(outs, Truthy)))

\* Mutation of CombinedSchema: the operands of the last + are swapped, so
\* the root schema overrides what the parents produce.
CombinedSchema_RootWins(n) ==
    IF parents[n] = <<>> THEN root_schema
    ELSE Merge(SumSchemas(ParentOutputSchemas(n)), root_schema)

\* lines 51-61: the schema handed to node.compute_schemas
CombinedSchema(n) ==
    IF parents[n] = <<>> THEN root_schema
    ELSE Merge(root_schema, SumSchemas(ParentOutputSchemas(n)))

\* Mutation of RemovePhase: the phase's nodes are popped but stay in the
\* blocking sets of the others (no difference_update).
RemovePhase_KeepBlocking(phase) ==
    [m \in (DOMAIN schemaless_nodes) \ phase |-> schemaless_nodes[m]]

\* Mutation of RemovePhase: the blocking sets are updated but the phase's
\* nodes are not popped from the dict.
RemovePhase_NoPop(phase) ==
    [m \in DOMAIN schemaless_nodes |-> schemaless_nodes[m] \ phase]

\* lines 67-70: drop the phase from the dict and from every blocking set
RemovePhase(phase) ==
    [m \in (DOMAIN schemaless_nodes) \ phase |-> schemaless_nodes[m] \ phase]

RECURSIVE Concat(_)
Concat(seqs) ==
    IF seqs = <<>> THEN <<>>
    ELSE Concat(SubSeq(seqs, 1, Len(seqs) - 1)) \o seqs[Len(seqs)]

\* Mutation of UpstreamOutputCols: only the data-parents are looked at
\* (node.parents in place of node.parents_with_dependencies).
UpstreamOutputCols_DataOnly(n) ==
    GetUnique(Concat([i \in DOMAIN parents[n] |->
                        SetToSeq(OpOutputs(parents[n][i]))]))

\* lines 86-91: the columns the node's upstream nodes produce
UpstreamOutputCols(n) ==
    LET ups == ParentsWithDependencies(n)
    IN  GetUnique(Concat([i \in DOMAIN ups |-> SetToSeq(OpOutputs(ups[i]))]))

\* lines 83-94: _input_columns
InputColumns ==
    LET order == SetToSeq(IterNodes({output_node}))
    IN  GetUnique(Concat(
          [i \in DOMAIN order |->
             SetToSeq(OpInputs(order[i]) \ Range(UpstreamOutputCols(order[i])))]))

\* lines 72-78: the root columns whose name _input_columns lists
GraphInputSchema(root) ==
    [c \in Columns |-> IF c \in Range(InputColumns) THEN root[c] ELSE Absent]

\* Mutation of GraphOutputSchema: the sink's input schema is taken.
GraphOutputSchema_Input == input_schema[output_node]

\* line 79: the sink's output schema
GraphOutputSchema == output_schema[output_node]

\* Mutation of ZeroedInputSchemas: node.input_schema is not reset.
ZeroedInputSchemas_Kept == input_schema

\* lines 101 and 103: node.input_schema = None on every node iterated
ZeroedInputSchemas ==
    [n \in Nodes |-> IF n \in IterNodes({output_node}) THEN None
                     ELSE input_schema[n]]

\* Mutation of ZeroedOutputSchemas: only the nodes reached through
\* data-parents are reset, not those behind a dependency-parent.
ZeroedOutputSchemas_DataOnly ==
    [n \in Nodes |->
       IF \/ n = output_node
          \/ \E m \in IterNodes({output_node}) : n \in Range(parents[m])
       THEN None
       ELSE output_schema[n]]

\* lines 101-102: node.output_schema = None on every node iterated
ZeroedOutputSchemas ==
    [n \in Nodes |-> IF n \in IterNodes({output_node}) THEN None
                     ELSE output_schema[n]]

(* -------------------------------- Init -------------------------------- *)

\* The ways to wire node n to the nodes of `upstream`: an ordered list of
\* data-parents and a disjoint set of dependency-parents.
NodeChoices(upstream) ==
    UNION {{[p |-> ps, d |-> ds] : ds \in SUBSET (upstream \ Range(ps))} :
             ps \in OrderedSubsets(upstream)}

RECURSIVE Dags(_)
\* The acyclic graphs over nodes 1..k: every edge leads to a node built
\* earlier, as when a pipeline is assembled from its sources up.
Dags(k) ==
    IF k = 0 THEN {<<>>}
    ELSE {Append(g, c) : g \in Dags(k - 1), c \in NodeChoices(1..(k - 1))}

RECURSIVE Wirings(_)
\* Wirings(k) lists one upstream node for each of the nodes 1..k (0: none);
\* the upstream node may be any node, the node itself included.
Wirings(k) ==
    IF k = 0 THEN {<<>>}
    ELSE {Append(w, t) : w \in Wirings(k - 1), t \in 0..NumNodes}

\* Whether the edge from n to w[n] is a data edge or a dependency-only one.
EdgeKinds == {"data", "mixed"}

IsData(kind, n) == kind = "data" \/ n % 2 = 1

\* Graphs that may hold parent cycles: chains, trees, self-loops and longer
\* cycles from one upstream edge per node, and a second, dependency-only
\* upstream node `extra` of the sink (0: none), through which a node
\* outside a cycle can be fitted before the cycle blocks the pass.
CyclicGraphs ==
    {[n \in Nodes |->
        [p |-> IF w[n] # 0 /\ IsData(kind, n) THEN <<w[n]>> ELSE <<>>,
         d |-> (IF w[n] # 0 /\ ~IsData(kind, n) THEN {w[n]} ELSE {})
               \cup (IF n = NumNodes /\ extra # 0 THEN {extra} ELSE {})]] :
       w \in Wirings(NumNodes), kind \in EdgeKinds, extra \in 0..NumNodes}

NoSnap == [root |-> None, ins |-> <<>>, outs |-> <<>>,
           gin |-> None, gout |-> None, full |-> FALSE]

\* No WorkflowOp method was called since the last Graph call.
NoCall == [op |-> "none", outcome |-> "none", after_error |-> FALSE,
           offered |-> None, selector |-> {}, returned |-> None,
           consumer |-> <<>>, exists |-> FALSE, warnings |-> <<>>,
           exported |-> None]

Zeros == [n \in Nodes |-> 0]

Nones == [n \in Nodes |-> None]

\* A phase counter can not pass the number of nodes; the guard keeps the
\* state space finite whatever the loop does.
MaxPhases == NumNodes + 1

\* The root schema of the fit that set the schemas of the nodes that are
\* already fitted when the Graph is built.
PriorRoots == {r \in RootSchemas : r["x"] # Absent}

\* State after Graph.__init__(output_node).  The nodes are the caller's:
\* each is either unfitted or was fitted before (both fields set together,
\* here by its operator's rule applied to an earlier root schema).
InitOn(graphs, priors) ==
    \E g \in graphs, fitted \in SUBSET Nodes, prior \in priors :
       /\ parents = [n \in Nodes |-> g[n].p]
       /\ dependencies = [n \in Nodes |-> g[n].d]
       /\ input_schema =
            [n \in Nodes |-> IF n \in fitted THEN NodeInputSchema(n, prior)
                             ELSE None]
       /\ output_schema =
            [n \in Nodes |->
               IF n \in fitted
               THEN NodeOutputSchema(n, NodeInputSchema(n, prior))
               ELSE None]
       /\ graph_input_schema = None
       /\ graph_output_schema = None
       /\ pc = "idle"
       /\ root_schema = None
       /\ schemaless_nodes = <<>>
       /\ current_phase = <<>>
       /\ processed_nodes = <<>>
       /\ last_call = "init"
       /\ calls = Zeros
       /\ fit_phase = Zeros
       /\ phase_no = 0
       /\ handed = Nones
       /\ pending0 = {}
       /\ stage = "none"
       /\ snap = NoSnap
       /\ first = NoSnap
       /\ wf = NoCall

Init == InitOn(Dags(NumNodes), PriorRoots)

\* The same program on graphs that may hold parent cycles.
InitCyclic == InitOn(CyclicGraphs, PriorRoots)

(* ------------------------------ actions ------------------------------- *)

\* fit_schema, lines 34-38: entry and the pending dict.
FitStart(root) ==
    /\ pc = "idle"
    /\ pc' = "loop"
    /\ root_schema' = root
    /\ schemaless_nodes' = BuildSchemalessNodes
    /\ pending0' = DOMAIN BuildSchemalessNodes
    /\ calls' = Zeros
    /\ fit_phase' = Zeros
    /\ phase_no' = 0
    /\ handed' = Nones
    /\ last_call' = "running"
    /\ IF stage = "fit_zero" /\ snap.root = root
       THEN UNCHANGED <<stage, snap>>
       ELSE stage' = "none" /\ snap' = NoSnap
    /\ first' = NoSnap
    /\ wf' = NoCall
    /\ UNCHANGED <<graphVars, input_schema, output_schema, graph_input_schema,
                   graph_output_schema, current_phase, processed_nodes>>

\* fit_schema, lines 40-49: pick the phase, or raise RuntimeError when no
\* pending node is dependency-free.  The list follows the dict's order,
\* which follows a set's iteration order: any order of the ready nodes.
CanSelectPhase ==
    /\ pc = "loop"
    /\ DOMAIN schemaless_nodes # {}
    /\ phase_no < MaxPhases

SelectPhase ==
    /\ CanSelectPhase
    /\ IF ReadyNodes = {}
       THEN /\ pc' = "idle"
            /\ last_call' = "fit_raised"
            /\ root_schema' = None
            /\ schemaless_nodes' = <<>>
            /\ stage' = "none"
            /\ snap' = NoSnap
            /\ UNCHANGED <<current_phase, phase_no>>
       ELSE /\ \E order \in Perms(ReadyNodes) : current_phase' = order
            /\ pc' = "phase"
            /\ phase_no' = phase_no + 1
            /\ UNCHANGED <<last_call, root_schema, schemaless_nodes, stage, snap>>
    /\ UNCHANGED <<graphVars, input_schema, output_schema, graph_input_schema,
                   graph_output_schema, processed_nodes, calls, fit_phase,
                   handed, pending0, first, wf>>

\* fit_schema, lines 50-63: one turn of the loop over current_phase.
CanProcessNode ==
    /\ pc = "phase"
    /\ Len(processed_nodes) < Len(current_phase)

ProcessNode ==
    /\ CanProcessNode
    /\ LET node == current_phase[Len(processed_nodes) + 1]
       IN  /\ ComputeSchemas(node, CombinedSchema(node))
           /\ processed_nodes' = Append(processed_nodes, node)
    /\ UNCHANGED <<graphVars, graph_input_schema, graph_output_schema, pc,
                   root_schema, schemaless_nodes, current_phase, last_call,
                   phase_no, pending0, stage, snap, first, wf>>

\* fit_schema, lines 65-70: retire the phase.
CanEndPhase ==
    /\ pc = "phase"
    /\ Len(processed_nodes) = Len(current_phase)

\* Mutation of EndPhase: the graph-level schemas are assigned inside the
\* loop, at the end of every phase.
EndPhase_AssignsGraph ==
    /\ CanEndPhase
    /\ schemaless_nodes' = RemovePhase(Range(current_phase))
    /\ current_phase' = <<>>
    /\ processed_nodes' = <<>>
    /\ pc' = "loop"
    /\ graph_input_schema' = GraphInputSchema(root_schema)
    /\ graph_output_schema' = GraphOutputSchema
    /\ UNCHANGED <<graphVars, input_schema, output_schema, root_schema,
                   last_call, calls, fit_phase, phase_no, handed, pending0,
                   stage, snap, first, wf>>

EndPhase ==
    /\ CanEndPhase
    /\ schemaless_nodes' = RemovePhase(Range(current_phase))
    /\ current_phase' = <<>>
    /\ processed_nodes' = <<>>
    /\ pc' = "loop"
    /\ UNCHANGED <<graphVars, input_schema, output_schema, graph_input_schema,
                   graph_output_schema, root_schema, last_call, calls,
                   fit_phase, phase_no, handed, pending0, stage, snap, first,
                   wf>>

\* fit_schema, lines 72-81: the graph-level schemas, and return.
CanFitFinish ==
    /\ pc = "loop"
    /\ DOMAIN schemaless_nodes = {}

FitFinish ==
    /\ CanFitFinish
    /\ graph_input_schema' = GraphInputSchema(root_schema)
    /\ graph_output_schema' = GraphOutputSchema
    /\ pc' = "idle"
    /\ last_call' = "fit_ok"
    /\ root_schema' = None
    /\ schemaless_nodes' = <<>>
    /\ snap' = [root |-> root_schema, ins |-> input_schema,
                outs |-> output_schema,
                gin |-> GraphInputSchema(root_schema),
                gout |-> GraphOutputSchema,
                full |-> (pending0 = IterNodes({output_node}))]
    /\ IF stage = "fit_zero"
       THEN stage' = "refit" /\ first' = snap
       ELSE stage' = "fit" /\ first' = NoSnap
    /\ UNCHANGED <<graphVars, input_schema, output_schema, current_phase,
                   processed_nodes, calls, fit_phase, phase_no, handed,
                   pending0, wf>>

\* Mutation of ZeroOutputSchemas: the graph-level schemas are reset too.
ZeroOutputSchemas_ResetsGraph ==
    /\ pc = "idle"
    /\ output_schema' = ZeroedOutputSchemas
    /\ input_schema' = ZeroedInputSchemas
    /\ graph_input_schema' = None
    /\ graph_output_schema' = None
    /\ last_call' = "zero"
    /\ calls' = Zeros
    /\ fit_phase' = Zeros
    /\ phase_no' = 0
    /\ handed' = Nones
    /\ pending0' = {}
    /\ IF stage \in {"fit", "refit"}
       THEN stage' = "fit_zero" /\ UNCHANGED snap
       ELSE stage' = "none" /\ snap' = NoSnap
    /\ first' = NoSnap
    /\ wf' = NoCall
    /\ UNCHANGED <<graphVars, pc, root_schema, schemaless_nodes,
                   current_phase, processed_nodes>>

\* _zero_output_schemas, lines 96-103.
ZeroOutputSchemas ==
    /\ pc = "idle"
    /\ output_schema' = ZeroedOutputSchemas
    /\ input_schema' = ZeroedInputSchemas
    /\ last_call' = "zero"
    /\ calls' = Zeros
    /\ fit_phase' = Zeros
    /\ phase_no' = 0
    /\ handed' = Nones
    /\ pending0' = {}
    /\ IF stage \in {"fit", "refit"}
       THEN stage' = "fit_zero" /\ UNCHANGED snap
       ELSE stage' = "none" /\ snap' = NoSnap
    /\ first' = NoSnap
    /\ wf' = NoCall
    /\ UNCHANGED <<graphVars, graph_input_schema, graph_output_schema, pc,
                   root_schema, schemaless_nodes, current_phase,
                   processed_nodes>>

\* Some step of the running fit_schema can be taken.
CanStep == CanSelectPhase \/ CanProcessNode \/ CanEndPhase \/ CanFitFinish

Next ==
    \/ \E root \in RootSchemas : FitStart(root)
    \/ SelectPhase
    \/ ProcessNode
    \/ EndPhase
    \/ FitFinish
    \/ ZeroOutputSchemas

Spec == Init /\ [][Next]_vars

SpecCyclic == InitCyclic /\ [][Next]_vars

(* ----------------------------- WorkflowOp ----------------------------- *)

\* A WorkflowOp wraps a workflow built on the Graph above: workflow.graph
\* is the Graph, workflow.output_schema is the graph's output schema and
\* workflow.output_dtypes gives the dtype of each column of that schema.
WorkflowOutputSchema == graph_output_schema

WorkflowOutputDtypes == graph_output_schema

\* Everything but wf: the Graph, its nodes and fit_schema's bookkeeping.
graphState == <<parents, dependencies, input_schema, output_schema,
                graph_input_schema, graph_output_schema, pc, root_schema,
                schemaless_nodes, current_phase, processed_nodes, last_call,
                calls, fit_phase, phase_no, handed, pending0, stage, snap,
                first>>

\* Request schemas and column selectors offered to compute_output_schema.
OfferedSchemas == RootSchemas

Selectors == {{"a", "b"}, {"b", "x"}, {"a", "b", "x"}, Columns}

\* Mutation of ExpectedInput: the offered schema is compared as it is.
ExpectedInput_NoApply(offered, selector) == offered

\* line 49: input_schema.apply(col_selector)
ExpectedInput(offered, selector) == Project(offered, selector)

\* line 51: not expected_input == self.workflow.graph.input_schema
Mismatch(offered, selector) ==
    ~(ExpectedInput(offered, selector) = graph_input_schema)

\* WorkflowOp.compute_output_schema, lines 48-58, on a fitted workflow.
ComputeOutputSchema(offered, selector) ==
    /\ pc = "idle"
    /\ graph_input_schema # None
    /\ wf' = [NoCall EXCEPT
                !.op = "compute_output_schema",
                !.after_error = (wf.outcome = "ValueError"),
                !.offered = offered,
                !.selector = selector,
                !.outcome = IF Mismatch(offered, selector)
                            THEN "ValueError" ELSE "returned",
                !.returned = IF Mismatch(offered, selector)
                             THEN None ELSE WorkflowOutputSchema]
    /\ UNCHANGED graphState

\* Data types a consumer's configuration declares for its inputs.
TritonTypes == {"TYPE_INT32", "TYPE_FP32"}

\* _triton_datatype_to_dtype
TritonDatatypeToDtype(data_type) ==
    CASE data_type = "TYPE_INT32" -> "int"
      [] data_type = "TYPE_FP32"  -> "float"
      [] OTHER                    -> "str"

\* The inputs a consumer may declare: x as either type, t and c as float.
ConsumerInputs ==
    {[name |-> "x", data_type |-> t] : t \in TritonTypes}
    \cup {[name |-> c, data_type |-> "TYPE_FP32"] : c \in {"t", "c"}}

MaxConsumerInputs == 2

\* consumer_config.input: a list of named columns, each name once; the
\* empty list also stands for no consumer_config.
ConsumerConfigs ==
    {s \in OrderedSubsets(ConsumerInputs) :
       /\ Len(s) <= MaxConsumerInputs
       /\ \A i, j \in DOMAIN s : s[i].name = s[j].name => i = j}

\* self.label_columns
label_columns == {"t"}

\* line 65: _remove_columns gives a workflow without the label columns.
RemoveColumns(dtypes, labels) ==
    [c \in Columns |-> IF c \in labels THEN Absent ELSE dtypes[c]]

\* Mutation of ReconcileColumn: the dtype is set also for a column that
\* the workflow does not produce (no `nvt_dtype and`).
ReconcileColumn_AddsMissing(acc, column) ==
    LET tf_dtype  == TritonDatatypeToDtype(column.data_type)
        nvt_dtype == acc.dtypes[column.name]
    IN  IF nvt_dtype # tf_dtype
        THEN [dtypes   |-> [acc.dtypes EXCEPT ![column.name] = tf_dtype],
              warnings |-> Append(acc.warnings, column.name)]
        ELSE acc

\* lines 71-78: one turn of the loop over consumer_config.input
ReconcileColumn(acc, column) ==
    LET tf_dtype  == TritonDatatypeToDtype(column.data_type)
        nvt_dtype == acc.dtypes[column.name]
    IN  IF nvt_dtype # Absent /\ nvt_dtype # tf_dtype
        THEN [dtypes   |-> [acc.dtypes EXCEPT ![column.name] = tf_dtype],
              warnings |-> Append(acc.warnings, column.name)]
        ELSE acc

RECURSIVE Reconcile(_, _)
\* lines 69-78: the loop, in the order of consumer_config.input
Reconcile(acc, inputs) ==
    IF inputs = <<>> THEN acc
    ELSE Reconcile(ReconcileColumn(acc, Head(inputs)), Tail(inputs))

\* WorkflowOp.export, lines 60-93, on a fitted workflow: mkdir raises when
\* the directory exists; otherwise the dtypes are reconciled and the
\* configuration is generated from the workflow's output dtypes.
Export(consumer_config, exists) ==
    /\ pc = "idle"
    /\ graph_output_schema # None
    /\ IF exists
       THEN wf' = [NoCall EXCEPT
                     !.op = "export",
                     !.exists = TRUE,
                     !.outcome = "FileExistsError"]
       ELSE LET workflow == RemoveColumns(WorkflowOutputDtypes, label_columns)
                done == Reconcile([dtypes |-> workflow, warnings |-> <<>>],
                                  consumer_config)
            IN  wf' = [NoCall EXCEPT
                         !.op = "export",
                         !.consumer = consumer_config,
                         !.outcome = "returned",
                         !.warnings = done.warnings,
                         !.exported = done.dtypes]
    /\ UNCHANGED graphState

\* A workflow is built on nodes that were never fitted and are chained
\* through data edges only.
InitWorkflow ==
    /\ Init
    /\ input_schema = Nones
    /\ \A n \in Nodes : dependencies[n] = {}

NextWorkflow ==
    \/ Next
    \/ \E offered \in OfferedSchemas, selector \in Selectors :
          ComputeOutputSchema(offered, selector)
    \/ \E consumer_config \in ConsumerConfigs, exists \in BOOLEAN :
          Export(consumer_config, exists)

SpecWorkflow == InitWorkflow /\ [][NextWorkflow]_vars

(* ============================== claims ================================ *)

\* The nodes reachable from output_node.
Reachable == IterNodes({output_node})

\* fit_schema has returned normally and nothing was called since.
FitReturned == pc = "idle" /\ last_call = "fit_ok"

\* fit_schema is running.
InFit == pc \in {"loop", "phase"}

\* No node is its own ancestor.
Acyclic == \A n \in Nodes : n \notin IterNodes(Range(ParentsWithDependencies(n)))

(* C1: on every acyclic graph (all graphs of Spec are), from any mix of    *)
(* fitted and unfitted nodes, fit_schema never raises the 'no dependency-  *)
(* free operator' error, always has a next step until it returns, takes at *)
(* most one phase per pending node, and on return every node reachable     *)
(* from output_node has input_schema and output_schema set.                *)
C1_FitTerminatesAllSet ==
    /\ Acyclic
    /\ last_call # "fit_raised"
    /\ InFit => /\ CanStep
                /\ phase_no <= Cardinality(pending0)
                /\ Len(processed_nodes) <= Len(current_phase)
    /\ FitReturned =>
         \A n \in Reachable : input_schema[n] # None /\ output_schema[n] # None

\* A fit that started from a partly fitted graph and needed two phases
\* has returned.
C1_Witness ==
    /\ FitReturned
    /\ pending0 # {}
    /\ pending0 # Reachable
    /\ phase_no >= 2

(* C2: a node's schema is computed only after all its data-parents and     *)
(* dependency-parents have their schemas set, and a parent computed in the *)
(* same pass was computed in a strictly earlier phase than the child.      *)
C2_ParentsFittedEarlier ==
    \A n \in Nodes :
       calls[n] > 0 =>
          \A p \in Range(ParentsWithDependencies(n)) :
             /\ input_schema[p] # None
             /\ output_schema[p] # None
             /\ calls[p] > 0 => fit_phase[p] < fit_phase[n]

\* The chain 1 -> 2 was fitted in one pass: node 1 in phase 1, node 2 in
\* phase 2.
C2_Witness ==
    /\ FitReturned
    /\ parents[2] = <<1>>
    /\ fit_phase[1] = 1
    /\ fit_phase[2] = 2

RECURSIVE GrowWithin(_, _)
\* The nodes of `among` reachable from T along edges between nodes of `among`.
GrowWithin(T, among) ==
    LET T2 == T \cup (among \cap UNION {Range(ParentsWithDependencies(n)) : n \in T})
    IN  IF T2 = T THEN T ELSE GrowWithin(T2, among)

\* The nodes of `among` that lie on a parent cycle made of nodes of `among`.
OnCycleWithin(among) ==
    {n \in among :
       n \in GrowWithin(among \cap Range(ParentsWithDependencies(n)), among)}

RECURSIVE ExpectedCombined(_), ExpectedIn(_), ExpectedOut(_)
\* What node n reads and the schemas it gets, as the graph, the root schema
\* and the schemas of the nodes fitted before the pass determine them,
\* whatever the order in which the pass handles its nodes.
ExpectedCombined(n) ==
    LET outs == [i \in DOMAIN parents[n] |-> ExpectedOut(parents[n][i])]
    IN  IF parents[n] = <<>> THEN root_schema
        ELSE Merge(root_schema, SumSchemas(SelectSeq(outs, Truthy)))

ExpectedIn(n) == NodeInputSchema(n, ExpectedCombined(n))

ExpectedOut(n) ==
    IF n \notin pending0 THEN output_schema[n]
    ELSE NodeOutputSchema(n, ExpectedIn(n))

(* C5: whatever order a phase's nodes are processed in, every node handled *)
(* so far holds the schemas that the graph, the root schema and the nodes  *)
(* fitted before the pass determine, and a pending node not yet handled is *)
(* still unset: a node's computation reads nothing of its phase's other    *)
(* nodes and writes only its own schemas.                                  *)
C5_PhaseOrderIndependent ==
    InFit =>
       \A n \in pending0 :
          IF calls[n] > 0
          THEN /\ handed[n] = ExpectedCombined(n)
               /\ input_schema[n] = ExpectedIn(n)
               /\ output_schema[n] = ExpectedOut(n)
          ELSE /\ input_schema[n] = None
               /\ output_schema[n] = None

\* A phase of two nodes was processed in descending order.
C5_Witness ==
    /\ pc = "phase"
    /\ Len(current_phase) = 2
    /\ current_phase[1] > current_phase[2]
    /\ processed_nodes = current_phase

\* The node and graph schemas are those the fit before the zero-out left.
SameAsFirstFit ==
    /\ \A n \in Reachable : /\ input_schema[n] = first.ins[n]
                            /\ output_schema[n] = first.outs[n]
    /\ graph_input_schema = first.gin
    /\ graph_output_schema = first.gout

\* C4 as stated: after fit_schema(R); _zero_output_schemas(); fit_schema(R)
\* every reachable node and the graph hold the schemas the first fit left.
C4_Original == stage = "refit" => SameAsFirstFit

(* C4, amended: after fit_schema(R); _zero_output_schemas(); fit_schema(R) *)
(* every reachable node and the graph hold the schemas the first fit left, *)
(* provided every reachable node was unset when the first fit started.     *)
C4_RefitIdempotent == (stage = "refit" /\ first.full) => SameAsFirstFit

\* fit; zero-out; fit has just ended on a graph of three reachable nodes
\* all of which the first fit computed.
C4_Witness ==
    /\ stage = "refit"
    /\ first.full
    /\ Cardinality(Reachable) >= 3

\* The column names some reachable node declares as input and none of that
\* node's data-parents or dependency-parents declares as output.
ExternalInputs ==
    {c \in Columns :
       \E n \in Reachable :
          /\ c \in OpInputs(n)
          /\ \A p \in Range(ParentsWithDependencies(n)) : c \notin OpOutputs(p)}

(* C6: after a successful fit, graph.input_schema holds exactly the root   *)
(* columns that some reachable node declares as input and that no data- or *)
(* dependency-parent of that node declares as output, each once and with   *)
(* the root's descriptor.                                                  *)
C6_GraphInputSchema ==
    FitReturned =>
       /\ \A c \in Columns :
             graph_input_schema[c] =
                IF c \in ExternalInputs THEN snap.root[c] ELSE Absent
       /\ Len(InputColumns) = Cardinality(Range(InputColumns))

\* A fit on a root schema with the unused column c returned, and the graph
\* input schema holds a and b only.
C6_Witness ==
    /\ FitReturned
    /\ snap.root["c"] # Absent
    /\ Names(graph_input_schema) = {"a", "b"}
    /\ Cardinality(Reachable) >= 2

\* The places in node n's parent list of the data-parents producing column c.
Producers(n, c) ==
    {i \in DOMAIN parents[n] :
       /\ output_schema[parents[n][i]] # None
       /\ output_schema[parents[n][i]][c] # Absent}

Last(S) == CHOOSE i \in S : \A j \in S : j <= i

(* C7: the schema handed to a node's compute_schemas gives every column    *)
(* the descriptor of the last-listed data-parent producing it, and the     *)
(* root's descriptor only when no data-parent produces it; a node without  *)
(* data-parents is handed the root schema; dependency-only parents add     *)
(* nothing.                                                                *)
C7_RightBiasedMerge ==
    InFit =>
       \A n \in Nodes :
          calls[n] > 0 =>
             /\ \A c \in Columns :
                   handed[n][c] =
                      IF Producers(n, c) = {} THEN root_schema[c]
                      ELSE output_schema[parents[n][Last(Producers(n, c))]][c]
             /\ parents[n] = <<>> => handed[n] = root_schema

\* The sink was handed x as float from its last-listed parent 2 although
\* its first-listed parent 1 produces x as int.
C7_Witness ==
    /\ InFit
    /\ calls[output_node] > 0
    /\ Len(parents[output_node]) = 2
    /\ output_schema[parents[output_node][1]]["x"] = "int"
    /\ output_schema[parents[output_node][2]]["x"] = "float"
    /\ handed[output_node]["x"] = "float"

(* C8: after every successful fit_schema, graph.output_schema is the       *)
(* output schema of output_node, which is set.                             *)
C8_GraphOutputSchema ==
    FitReturned =>
       /\ graph_output_schema = output_schema[output_node]
       /\ graph_output_schema # None

\* A fit of a chain ending at the sink returned with a graph output schema
\* that differs from the sink's input schema.
C8_Witness ==
    /\ FitReturned
    /\ parents[output_node] # <<>>
    /\ graph_output_schema # None
    /\ graph_output_schema # input_schema[output_node]

(* C9: in one pass compute_schemas is never invoked twice on a node, is    *)
(* invoked only on nodes that were pending when the pass started, and by   *)
(* the time fit_schema returns was invoked exactly once on each of them.   *)
C9_ComputedOncePerPass ==
    /\ \A n \in Nodes : calls[n] <= 1
    /\ \A n \in Nodes : calls[n] > 0 => n \in pending0
    /\ FitReturned => \A n \in pending0 : calls[n] = 1

\* A fit returned on a graph where node 1 is reachable from the sink both
\* directly and through node 2, every node computed once.
C9_Witness ==
    /\ FitReturned
    /\ NumNodes >= 3
    /\ 1 \in Range(ParentsWithDependencies(output_node))
    /\ 2 \in Range(ParentsWithDependencies(output_node))
    /\ 1 \in Range(ParentsWithDependencies(2))
    /\ \A n \in {1, 2, output_node} : calls[n] = 1

\* Every input column of node n is a root column or a column some data- or
\* dependency-parent of n outputs.
Provenance(n) ==
    \A c \in Names(input_schema[n]) :
       \/ snap.root[c] # Absent
       \/ \E p \in Range(ParentsWithDependencies(n)) :
             output_schema[p] # None /\ output_schema[p][c] # Absent

\* C10 as stated: after a successful fit every reachable node's input
\* columns come from the root schema or from the node's parents.
C10_Original == FitReturned => \A n \in Reachable : Provenance(n)

(* C10, amended: after a successful fit, every input column of every node  *)
(* whose schema that fit computed is a column of the root schema or a      *)
(* column in the output schema of one of its data- or dependency-parents.  *)
C10_Provenance == FitReturned => \A n \in pending0 : Provenance(n)

\* A fit returned in which the sink took column x from a parent while the
\* root schema has no x.
C10_Witness ==
    /\ FitReturned
    /\ output_node \in pending0
    /\ snap.root["x"] = Absent
    /\ input_schema[output_node]["x"] # Absent

\* A step of _zero_output_schemas.
ZeroStep == pc = "idle" /\ last_call' = "zero"

\* The step on which fit_schema returns normally.
FitReturnStep == InFit /\ pc' = "idle" /\ last_call' = "fit_ok"

(* C11: _zero_output_schemas leaves input_schema and output_schema unset   *)
(* on every node reachable from output_node through data-parents or        *)
(* dependency-parents; a fit_schema called right after it takes every      *)
(* reachable node as pending, and when it returns it has computed the      *)
(* schemas of every reachable node, each once.                             *)
C11_ZeroThenFitRecomputesAll ==
    [][/\ ZeroStep =>
            \A n \in Reachable :
               input_schema'[n] = None /\ output_schema'[n] = None
       /\ (pc = "idle" /\ last_call = "zero" /\ InFit') =>
            /\ pending0' = Reachable
            /\ DOMAIN schemaless_nodes' = Reachable
       /\ (InFit /\ InFit') => pending0' = pending0
       /\ (FitReturnStep /\ pending0 = Reachable) =>
            \A n \in Reachable :
               /\ calls'[n] = 1
               /\ input_schema'[n] # None
               /\ output_schema'[n] # None]_vars

\* fit; zero-out; fit has returned on a graph whose sink has a dependency-
\* only parent: all three nodes had been fitted before the zero-out and
\* were computed again by the fit after it.
C11_Witness ==
    /\ stage = "refit"
    /\ FitReturned
    /\ dependencies[output_node] # {}
    /\ Cardinality(Reachable) >= 3
    /\ \A n \in Reachable : first.ins[n] # None /\ calls[n] = 1
    /\ pending0 = Reachable

(* C12: compute_output_schema raises the mismatch error exactly when the   *)
(* offered schema projected onto the column selector differs from the      *)
(* graph's input_schema and otherwise returns the workflow's output        *)
(* schema; either way the call leaves the graph and every node's schemas   *)
(* as they were, also when the call before it raised the error.            *)
C12_CompatibilityCheck ==
    [][wf'.op = "compute_output_schema" =>
         LET projected == Project(wf'.offered, wf'.selector)
         IN  /\ wf'.outcome \in {"ValueError", "returned"}
             /\ wf'.outcome = "ValueError" <=> projected # graph_input_schema
             /\ wf'.outcome = "returned" =>
                   wf'.returned = graph_output_schema
             /\ UNCHANGED <<graphVars, input_schema, output_schema,
                            graph_input_schema, graph_output_schema>>]_vars

\* A check returned the output schema for an offered schema that matches
\* only once projected, right after a check that raised the error.
C12_Witness ==
    /\ wf.op = "compute_output_schema"
    /\ wf.outcome = "returned"
    /\ wf.after_error
    /\ wf.offered # Project(wf.offered, wf.selector)
    /\ wf.returned = graph_output_schema
    /\ graph_output_schema # None

\* The places in the consumer's input list that declare column c.
Declared(c) == {i \in DOMAIN wf.consumer : wf.consumer[i].name = c}

\* The dtype the exported workflow produces for column c, Absent if none.
Produced(c) == IF c \in label_columns THEN Absent ELSE graph_output_schema[c]

(* C13: export ends normally unless its directory exists, whatever the     *)
(* dtypes; for every column the consumer declares with a dtype other than  *)
(* the one the workflow produces, it warns once and exports the consumer's *)
(* dtype; every other column, declared or not, produced or not, keeps what *)
(* the workflow produces and raises no warning.                            *)
C13_DtypeReconciliation ==
    wf.op = "export" =>
       /\ wf.outcome = IF wf.exists THEN "FileExistsError" ELSE "returned"
       /\ wf.outcome = "returned" =>
            \A c \in Columns :
               LET differing ==
                     {i \in Declared(c) :
                        /\ Produced(c) # Absent
                        /\ TritonDatatypeToDtype(wf.consumer[i].data_type)
                             # Produced(c)}
                   warned == {k \in DOMAIN wf.warnings : wf.warnings[k] = c}
               IN  IF differing # {}
                   THEN /\ Cardinality(warned) = 1
                        /\ \A i \in differing :
                              wf.exported[c] =
                                TritonDatatypeToDtype(wf.consumer[i].data_type)
                   ELSE /\ warned = {}
                        /\ wf.exported[c] = Produced(c)

\* An export returned for a consumer that declares x as float, which the
\* workflow produces with another dtype, and the label column t, which
\* the exported workflow does not produce: x was overridden with one
\* warning, t was left out.
C13_Witness ==
    /\ wf.op = "export"
    /\ wf.outcome = "returned"
    /\ Declared("x") # {} /\ Declared("t") # {}
    /\ graph_output_schema["x"] \in {"int", "str"}
    /\ graph_output_schema["t"] = "int"
    /\ wf.exported["x"] = "float"
    /\ wf.exported["t"] = Absent
    /\ wf.warnings = <<"x">>

(* C14: whenever no Graph operation is running, after any sequence of      *)
(* fit_schema and _zero_output_schemas calls, aborted fits included, every *)
(* reachable node has its output_schema set exactly when its input_schema  *)
(* is set.                                                                 *)
C14_SchemasSetTogether ==
    pc = "idle" =>
       \A n \in Reachable :
          (output_schema[n] # None) <=> (input_schema[n] # None)

\* A fit has aborted leaving a reachable node fitted and another unfitted.
C14_Witness ==
    /\ pc = "idle"
    /\ last_call = "fit_raised"
    /\ \E n \in Reachable : calls[n] > 0 /\ output_schema[n] # None
    /\ \E n \in Reachable : input_schema[n] = None

\* Node a is a direct or transitive parent of node b.
Ancestor(a, b) == a \in IterNodes(Range(ParentsWithDependencies(b)))

(* C15: no node of a selected phase is a direct or transitive ancestor,    *)
(* through data- or dependency-parents, of a node of the same phase, also  *)
(* when an unfitted node has a fitted parent with an unfitted ancestor.    *)
C15_PhaseIsAntichain ==
    pc = "phase" =>
       \A a, b \in Range(current_phase) : ~Ancestor(a, b)

\* On the chain 1 -> 2 -> 3 with only node 2 fitted, the first phase holds
\* node 1 alone although node 3 has no pending parent.
C15_Witness ==
    /\ pc = "phase"
    /\ phase_no = 1
    /\ pending0 = {1, 3}
    /\ Range(ParentsWithDependencies(3)) = {2}
    /\ Range(ParentsWithDependencies(2)) = {1}
    /\ input_schema[2] # None
    /\ current_phase = <<1>>

(* C16: fit_schema takes as pending exactly the reachable nodes whose      *)
(* input_schema is unset at the call; a node that is not pending is never  *)
(* passed to compute_schemas and keeps both schemas through the call; a    *)
(* fit called right after a successful fit has no pending node, and a fit  *)
(* without pending nodes changes no node schema and sets the graph-level   *)
(* schemas from the root schema and the sink.                              *)
C16_OnlyPendingFitted ==
    [][/\ (pc = "idle" /\ InFit') =>
            /\ pending0' = {n \in Reachable : input_schema[n] = None}
            /\ UNCHANGED <<input_schema, output_schema>>
       /\ InFit =>
            \A n \in Nodes \ pending0 :
               /\ calls'[n] = 0
               /\ input_schema'[n] = input_schema[n]
               /\ output_schema'[n] = output_schema[n]
       /\ (FitReturned /\ InFit') => pending0' = {}
       /\ (FitReturnStep /\ pending0 = {}) =>
            /\ calls' = Zeros
            /\ UNCHANGED <<input_schema, output_schema>>
            /\ graph_input_schema' = GraphInputSchema(root_schema)
            /\ graph_output_schema' = output_schema[output_node]]_vars

\* A fit on a root schema without x has returned; it computed some nodes
\* and left a source node that was already fitted with its column x.
C16_Witness ==
    /\ FitReturned
    /\ pending0 # {}
    /\ snap.root["x"] = Absent
    /\ \E n \in Reachable \ pending0 :
          /\ parents[n] = <<>>
          /\ calls[n] = 0
          /\ input_schema[n]["x"] # Absent

(* C17: _zero_output_schemas leaves graph.input_schema and                 *)
(* graph.output_schema as they were while output_node.output_schema        *)
(* becomes unset.                                                          *)
C17_ZeroKeepsGraphSchemas ==
    [][ZeroStep =>
         /\ UNCHANGED <<graph_input_schema, graph_output_schema>>
         /\ output_schema'[output_node] = None]_vars

\* After fit; zero-out the graph still holds the output schema that the
\* fit left while the sink's output schema is unset.
C17_Witness ==
    /\ last_call = "zero"
    /\ stage = "fit_zero"
    /\ graph_output_schema = snap.gout
    /\ graph_input_schema = snap.gin
    /\ graph_output_schema # None
    /\ output_schema[output_node] = None

(* C18: from the call of fit_schema up to its abort with the 'no           *)
(* dependency-free operator' error no step changes graph.input_schema or   *)
(* graph.output_schema (only the normal return assigns them), and the      *)
(* abort leaves every node schema as the completed phases set it.          *)
C18_AbortKeepsGraphSchemas ==
    [][/\ ((pc = "idle" /\ InFit') \/ (InFit /\ ~FitReturnStep)) =>
            UNCHANGED <<graph_input_schema, graph_output_schema>>
       /\ (InFit /\ last_call' = "fit_raised") =>
            /\ UNCHANGED <<input_schema, output_schema>>
            /\ \A n \in Nodes :
                  calls[n] > 0 =>
                     input_schema'[n] # None /\ output_schema'[n] # None]_vars

\* A fit aborted on a graph that an earlier fit had fitted: the graph-level
\* schemas are still set, a node of a completed phase is fitted, the sink
\* is not.
C18_Witness ==
    /\ pc = "idle"
    /\ last_call = "fit_raised"
    /\ graph_input_schema # None
    /\ graph_output_schema # None
    /\ output_schema[output_node] = None
    /\ \E n \in pending0 : calls[n] = 1 /\ input_schema[n] # None

====
